---- MODULE Spec2Model ----
(***************************************************************************)
(* Business-analytics analysis engine: the text utilities (utils.py), the  *)
(* email analyzer (analyzers/email_analyzer.py and its older copy in       *)
(* main.py) and the spreadsheet analyzer                                   *)
(* (analyzers/spreadsheet_analyzer.py).                                    *)
(*                                                                         *)
(* Every operation is a stateless function of its arguments.  The state    *)
(* machine is the request cycle of the tool host: a call arrives with its  *)
(* arguments (Invoke...), the function runs on them (Run...), the reply is *)
(* handed back (Return).  Strings are sequences of one-character strings,  *)
(* so that lower-casing, substring search, splitting and the regular       *)
(* expressions are computed character by character as Python does.         *)
(***************************************************************************)
EXTENDS Integers, Sequences, FiniteSets, TLC

VARIABLES pc, tool, args, result

vars == <<pc, tool, args, result>>

(***************************************************************************)
(* Python str primitives                                                   *)
(***************************************************************************)
UpperLetters ==
    <<"A","B","C","D","E","F","G","H","I","J","K","L","M",
      "N","O","P","Q","R","S","T","U","V","W","X","Y","Z">>

LowerLetters ==
    <<"a","b","c","d","e","f","g","h","i","j","k","l","m",
      "n","o","p","q","r","s","t","u","v","w","x","y","z">>

Digits == <<"0","1","2","3","4","5","6","7","8","9">>

Whitespace == {" ", "\n", "\t"}

Range(s) == {s[i] : i \in DOMAIN s}

\* str.lower() on one character
LowerChar(c) ==
    IF \E i \in DOMAIN UpperLetters : UpperLetters[i] = c
    THEN LowerLetters[CHOOSE i \in DOMAIN UpperLetters : UpperLetters[i] = c]
    ELSE c

\* str.lower()
Lower(s) == [i \in 1..Len(s) |-> LowerChar(s[i])]

\* needle in hay
Contains(hay, needle) ==
    \E i \in 0..(Len(hay) - Len(needle)) :
        \A j \in 1..Len(needle) : hay[i + j] = needle[j]

\* any(kw in text for kw in keywords)
AnyKeyword(text, keywords) ==
    \E k \in DOMAIN keywords : Contains(text, keywords[k])

\* str.strip()
Strip(s) ==
    IF \A i \in DOMAIN s : s[i] \in Whitespace THEN <<>>
    ELSE LET first == CHOOSE i \in DOMAIN s :
                        /\ s[i] \notin Whitespace
                        /\ \A k \in 1..(i - 1) : s[k] \in Whitespace
             last == CHOOSE i \in DOMAIN s :
                        /\ s[i] \notin Whitespace
                        /\ \A k \in (i + 1)..Len(s) : s[k] \in Whitespace
         IN SubSeq(s, first, last)

\* the tokens of s from position i on, appended to acc
RECURSIVE SplitFrom(_, _, _)
SplitFrom(s, i, acc) ==
    IF \A k \in i..Len(s) : s[k] \in Whitespace THEN acc
    ELSE LET start == CHOOSE j \in i..Len(s) :
                        /\ s[j] \notin Whitespace
                        /\ \A k \in i..(j - 1) : s[k] \in Whitespace
             stop == CHOOSE j \in start..Len(s) :
                        /\ \A k \in start..j : s[k] \notin Whitespace
                        /\ (j = Len(s) \/ s[j + 1] \in Whitespace)
         IN SplitFrom(s, stop + 1, Append(acc, SubSeq(s, start, stop)))

\* str.split(): the maximal runs of non-whitespace characters, in order
Split(s) == SplitFrom(s, 1, <<>>)

\* the pieces of s from position i on, cut at every sep, appended to acc
RECURSIVE SplitOnFrom(_, _, _, _)
SplitOnFrom(s, sep, i, acc) ==
    IF \A k \in i..Len(s) : s[k] # sep
    THEN Append(acc, SubSeq(s, i, Len(s)))
    ELSE LET cut == CHOOSE j \in i..Len(s) :
                        s[j] = sep /\ \A k \in i..(j - 1) : s[k] # sep
         IN SplitOnFrom(s, sep, cut + 1, Append(acc, SubSeq(s, i, cut - 1)))

\* str.split(sep) for a one-character sep: always at least one piece
SplitOn(s, sep) == SplitOnFrom(s, sep, 1, <<>>)

\* str.count(c) for a one-character c
Count(s, c) == Cardinality({i \in DOMAIN s : s[i] = c})

\* str.isalnum(): non-empty, every character a letter or a digit
IsAlnum(w) ==
    /\ Len(w) > 0
    /\ \A i \in DOMAIN w :
          w[i] \in Range(UpperLetters) \cup Range(LowerLetters) \cup Range(Digits)

\* seq[:n]
Take(s, n) == SubSeq(s, 1, IF Len(s) < n THEN Len(s) ELSE n)

\* the concatenation of the strings of a sequence
RECURSIVE Concat(_)
Concat(ss) == IF ss = <<>> THEN <<>> ELSE Head(ss) \o Concat(Tail(ss))

(***************************************************************************)
(* utils.py: keyword tables                                                *)
(***************************************************************************)
STOP_WORDS ==
    { <<"t","h","e">>,
       <<"a">>,
       <<"a","n">>,
       <<"a","n","d">>,
       <<"o","r">>,
       <<"b","u","t">>,
       <<"i","n">>,
       <<"o","n">>,
       <<"a","t">>,
       <<"t","o">>,
       <<"f","o","r">>,
       <<"o","f">>,
       <<"w","i","t","h">>,
       <<"i","s">>,
       <<"b","e">>,
       <<"t","h","a","t">>,
       <<"t","h","i","s">>,
       <<"i","t">>,
       <<"f","r","o","m">>,
       <<"b","y">>,
       <<"a","s">>,
       <<"a","r","e">>,
       <<"w","a","s">>,
       <<"w","e","r","e">>,
       <<"b","e","e","n">>,
       <<"b","e","i","n","g">>,
       <<"h","a","v","e">>,
       <<"h","a","s">>,
       <<"h","a","d">>,
       <<"d","o">>,
       <<"d","o","e","s">>,
       <<"d","i","d">>,
       <<"w","i","l","l">>,
       <<"w","o","u","l","d">>,
       <<"c","o","u","l","d">>,
       <<"s","h","o","u","l","d">>,
       <<"m","a","y">>,
       <<"m","i","g","h","t">>,
       <<"c","a","n">>,
       <<"m","u","s","t">>,
       <<"s","h","a","l","l">> }

URGENCY_KEYWORDS ==
    << <<"u","r","g","e","n","t">>,
       <<"a","s","a","p">>,
       <<"c","r","i","t","i","c","a","l">>,
       <<"e","m","e","r","g","e","n","c","y">>,
       <<"i","m","m","e","d","i","a","t","e","l","y">>,
       <<"d","e","a","d","l","i","n","e">>,
       <<"p","r","i","o","r","i","t","y">>,
       <<"r","u","s","h">>,
       <<"q","u","i","c","k">>,
       <<"f","a","s","t">>,
       <<"n","o","w">>,
       <<"t","o","d","a","y">> >>

TONE_INDICATORS ==
    << [tone |-> "formal", keywords |->
          << <<"d","e","a","r">>,
             <<"s","i","n","c","e","r","e","l","y">>,
             <<"r","e","g","a","r","d","s">>,
             <<"p","r","o","f","e","s","s","i","o","n","a","l">>,
             <<"m","e","e","t","i","n","g">>,
             <<"p","r","o","p","o","s","a","l">>,
             <<"h","e","r","e","b","y">> >>],
       [tone |-> "casual", keywords |->
          << <<"h","i">>,
             <<"h","e","y">>,
             <<"t","h","a","n","k","s">>,
             <<"c","h","e","e","r","s">>,
             <<"l","o","l">>,
             <<"c","o","o","l">>,
             <<"a","w","e","s","o","m","e">> >>],
       [tone |-> "negative", keywords |->
          << <<"p","r","o","b","l","e","m">>,
             <<"i","s","s","u","e">>,
             <<"e","r","r","o","r">>,
             <<"f","a","i","l","e","d">>,
             <<"d","i","s","a","p","p","o","i","n","t","e","d">>,
             <<"c","o","n","c","e","r","n">>,
             <<"c","o","m","p","l","a","i","n","t">> >>],
       [tone |-> "positive", keywords |->
          << <<"g","r","e","a","t">>,
             <<"e","x","c","e","l","l","e","n","t">>,
             <<"s","u","c","c","e","s","s">>,
             <<"h","a","p","p","y">>,
             <<"a","p","p","r","e","c","i","a","t","e">>,
             <<"t","h","a","n","k"," ","y","o","u">>,
             <<"w","o","n","d","e","r","f","u","l">> >>] >>

ACTION_KEYWORDS ==
    << <<"p","l","e","a","s","e">>,
       <<"n","e","e","d">>,
       <<"c","a","n"," ","y","o","u">>,
       <<"c","o","u","l","d"," ","y","o","u">>,
       <<"w","i","l","l"," ","y","o","u">>,
       <<"w","o","u","l","d"," ","y","o","u">>,
       <<"s","h","o","u","l","d">>,
       <<"m","u","s","t">>,
       <<"r","e","q","u","i","r","e","d">>,
       <<"a","c","t","i","o","n">>,
       <<"d","o"," ","t","h","i","s">>,
       <<"i","m","p","l","e","m","e","n","t">> >>

(***************************************************************************)
(* utils.py: functions                                                     *)
(***************************************************************************)
\* re.match(r'^([^<]+)<([^>]+)>$', t): the position of the "<" that ends
\* group 1, or 0 when the pattern does not match
NameMatch(t) ==
    IF /\ Len(t) >= 4
       /\ t[Len(t)] = ">"
       /\ t[1] # "<"
       /\ \E p \in 2..(Len(t) - 2) :
             /\ t[p] = "<"
             /\ \A k \in 1..(p - 1) : t[k] # "<"
             /\ \A k \in (p + 1)..(Len(t) - 1) : t[k] # ">"
    THEN CHOOSE p \in 2..(Len(t) - 2) :
             t[p] = "<" /\ \A k \in 1..(p - 1) : t[k] # "<"
    ELSE 0

parse_email_address(email_string) ==
    LET t == Strip(email_string)
        p == NameMatch(t)
    IN IF p # 0
       THEN [name  |-> Strip(SubSeq(t, 1, p - 1)),
             email |-> Strip(SubSeq(t, p + 1, Len(t) - 1))]
       ELSE [name |-> <<>>, email |-> t]

\* email.split('@')[1] if '@' in email else 'unknown'
extract_domain(email) ==
    IF Contains(email, <<"@">>)
    THEN SplitOn(email, "@")[2]
    ELSE <<"u","n","k","n","o","w","n">>

\* the length of the longest run of characters outside stop from position i
RunLength(s, i, stop) ==
    IF \A k \in i..Len(s) : s[k] \notin stop THEN Len(s) - i + 1
    ELSE (CHOOSE j \in i..Len(s) :
              s[j] \in stop /\ \A k \in i..(j - 1) : s[k] \notin stop) - i

\* the pattern without its first alternative: r'([^,]+)' alone, a plain
\* split at the commas
RecipientMatchAtCommaOnly(s, pos) ==
    LET n == RunLength(s, pos, {","})
    IN IF n >= 1
       THEN [matched |-> TRUE, g1 |-> <<>>, g2 |-> <<>>,
             g3 |-> SubSeq(s, pos, pos + n - 1), next |-> pos + n]
       ELSE [matched |-> FALSE, g1 |-> <<>>, g2 |-> <<>>, g3 |-> <<>>,
             next |-> pos + 1]

\* one attempt of r'([^<,]*)<([^>]+)>|([^,]+)' at position pos: the groups
\* and the position after the match; matched is FALSE when neither
\* alternative matches there.  A group that took no part is empty (None).
RecipientMatchAt(s, pos) ==
    LET k == RunLength(s, pos, {"<", ","})
        q == pos + k + 1
        m == RunLength(s, q, {">"})
        n == RunLength(s, pos, {","})
    IN IF /\ pos + k <= Len(s)
          /\ s[pos + k] = "<"
          /\ m >= 1
          /\ q + m <= Len(s)
       THEN [matched |-> TRUE,
             g1 |-> SubSeq(s, pos, pos + k - 1),
             g2 |-> SubSeq(s, q, q + m - 1),
             g3 |-> <<>>,
             next |-> q + m + 1]
       ELSE IF n >= 1
       THEN [matched |-> TRUE, g1 |-> <<>>, g2 |-> <<>>,
             g3 |-> SubSeq(s, pos, pos + n - 1), next |-> pos + n]
       ELSE [matched |-> FALSE, g1 |-> <<>>, g2 |-> <<>>, g3 |-> <<>>,
             next |-> pos + 1]

\* the body of the for loop over re.finditer, from position pos on
RECURSIVE RecipientsFrom(_, _, _)
RecipientsFrom(s, pos, recipients) ==
    IF pos > Len(s) THEN recipients
    ELSE LET match == RecipientMatchAt(s, pos)
             named == match.g1 # <<>> \/ match.g2 # <<>>
             name  == IF named THEN Strip(match.g1) ELSE <<>>
             email == IF named THEN Strip(match.g2) ELSE Strip(match.g3)
             entry == [name   |-> name,
                       email  |-> email,
                       domain |-> extract_domain(email)]
         IN RecipientsFrom(s, match.next,
               IF match.matched /\ email # <<>>
               THEN Append(recipients, entry)
               ELSE recipients)

parse_recipients(recipient_string) ==
    IF recipient_string = <<>> THEN <<>>
    ELSE RecipientsFrom(recipient_string, 1, <<>>)

\* the keys of word_freq in insertion order: the distinct words, each at
\* the place of its first occurrence
RECURSIVE FirstSeen(_, _)
FirstSeen(words, acc) ==
    IF words = <<>> THEN acc
    ELSE FirstSeen(Tail(words),
            IF \E i \in DOMAIN acc : acc[i] = Head(words)
            THEN acc ELSE Append(acc, Head(words)))

\* word_freq[word]
Occurrences(words, w) == Cardinality({i \in DOMAIN words : words[i] = w})

\* the sort with an item placed before the items of its own count: equal
\* counts end in the reverse of their first-seen order
RECURSIVE SortByCountDescTiesReversed(_, _)
SortByCountDescTiesReversed(items, acc) ==
    IF items = <<>> THEN acc
    ELSE LET x == Head(items)
             before == Cardinality({i \in DOMAIN acc : acc[i].count > x.count})
         IN SortByCountDescTiesReversed(Tail(items),
               SubSeq(acc, 1, before) \o <<x>> \o SubSeq(acc, before + 1, Len(acc)))

\* sorted(items, key=count, reverse=True): stable, so equal counts keep
\* their relative order
RECURSIVE SortByCountDesc(_, _)
SortByCountDesc(items, acc) ==
    IF items = <<>> THEN acc
    ELSE LET x == Head(items)
             before == Cardinality({i \in DOMAIN acc : acc[i].count >= x.count})
         IN SortByCountDesc(Tail(items),
               SubSeq(acc, 1, before) \o <<x>> \o SubSeq(acc, before + 1, Len(acc)))

\* the comprehension of extract_key_topics with the stop-word set as a
\* parameter (main.py repeats it with its own set)
KeyTopics(text, top_n, stop_words) ==
    LET all == Split(Lower(text))
        keep(w) == IsAlnum(w) /\ w \notin stop_words /\ Len(w) > 3
        words == SelectSeq(all, keep)
        keys == FirstSeen(words, <<>>)
        items == [i \in DOMAIN keys |->
                     [word |-> keys[i], count |-> Occurrences(words, keys[i])]]
        sorted == SortByCountDesc(items, <<>>)
        frequent(it) == it.count >= 2
        kept == SelectSeq(sorted, frequent)
    IN Take([i \in DOMAIN kept |-> kept[i].word], top_n)

extract_key_topics(text, top_n) == KeyTopics(text, top_n, STOP_WORDS)

\* the loop over the tone table: the tones with a keyword in text_lower,
\* in the order of the table
DetectedTones(text_lower, indicators) ==
    LET hit(entry) == AnyKeyword(text_lower, entry.keywords)
        hits == SelectSeq(indicators, hit)
    IN [i \in DOMAIN hits |-> hits[i].tone]

\* detect_tone without the default: the empty list when nothing matches
detect_tone_without_default(text) ==
    DetectedTones(Lower(text), TONE_INDICATORS)

detect_tone(text) ==
    LET detected == DetectedTones(Lower(text), TONE_INDICATORS)
    IN IF detected # <<>> THEN detected ELSE <<"neutral">>

detect_urgency(text) == AnyKeyword(Lower(text), URGENCY_KEYWORDS)

\* the lines with an action keyword, stripped, in order
ActionLines(text, keywords) ==
    LET lines == SplitOn(text, "\n")
        hit(line) == AnyKeyword(Lower(line), keywords)
        hits == SelectSeq(lines, hit)
    IN [i \in DOMAIN hits |-> Strip(hits[i])]

extract_action_items(text, max_items) ==
    Take(ActionLines(text, ACTION_KEYWORDS), max_items)

(***************************************************************************)
(* analyzers/email_analyzer.py                                             *)
(***************************************************************************)
Max(a, b) == IF a >= b THEN a ELSE b

\* email_data.get('from') or email_data.get('sender', ''): a missing or
\* empty 'from' is the empty string here, and falls through to 'sender'
SenderField(email_data) ==
    IF email_data.from # <<>> THEN email_data.from ELSE email_data.sender

extract_sender_info(email_data) ==
    LET parsed == parse_email_address(SenderField(email_data))
    IN [name   |-> parsed.name,
        email  |-> parsed.email,
        domain |-> extract_domain(parsed.email)]

extract_recipient_info(email_data) ==
    [to  |-> parse_recipients(email_data.to),
     cc  |-> parse_recipients(email_data.cc),
     bcc |-> parse_recipients(email_data.bcc)]

\* analyze_email_content with the words counted in full_text, subject
\* included
analyze_email_content_counting_subject(email_data) ==
    LET subject == email_data.subject
        body == email_data.body
        full_text == subject \o <<" ">> \o body
        word_count == Len(Split(full_text))
        action_items == extract_action_items(body, 3)
    IN [word_count |-> word_count,
        character_count |-> Len(body),
        question_count |-> Count(body, "?"),
        has_urgency |-> detect_urgency(full_text),
        detected_tone |-> detect_tone(full_text),
        key_topics |-> extract_key_topics(body, 5),
        estimated_read_time_seconds |-> Max(10, (word_count \div 200) * 60),
        action_item_count |-> Len(action_items),
        action_items |-> action_items]

analyze_email_content(email_data) ==
    LET subject == email_data.subject
        body == email_data.body
        full_text == subject \o <<" ">> \o body
        word_count == Len(Split(body))
        action_items == extract_action_items(body, 3)
    IN [word_count |-> word_count,
        character_count |-> Len(body),
        question_count |-> Count(body, "?"),
        has_urgency |-> detect_urgency(full_text),
        detected_tone |-> detect_tone(full_text),
        key_topics |-> extract_key_topics(body, 5),
        estimated_read_time_seconds |-> Max(10, (word_count \div 200) * 60),
        action_item_count |-> Len(action_items),
        action_items |-> action_items]

(***************************************************************************)
(* main.py: the older copies of the email functions, with their own        *)
(* keyword tables                                                          *)
(***************************************************************************)
main_urgency_keywords ==
    << <<"u","r","g","e","n","t">>,
       <<"a","s","a","p">>,
       <<"c","r","i","t","i","c","a","l">>,
       <<"e","m","e","r","g","e","n","c","y">>,
       <<"i","m","m","e","d","i","a","t","e","l","y">>,
       <<"d","e","a","d","l","i","n","e">>,
       <<"p","r","i","o","r","i","t","y">>,
       <<"r","u","s","h">> >>

main_tone_indicators ==
    << [tone |-> "formal", keywords |->
          << <<"d","e","a","r">>,
             <<"s","i","n","c","e","r","e","l","y">>,
             <<"r","e","g","a","r","d","s">>,
             <<"p","r","o","f","e","s","s","i","o","n","a","l">>,
             <<"m","e","e","t","i","n","g">>,
             <<"p","r","o","p","o","s","a","l">> >>],
       [tone |-> "casual", keywords |->
          << <<"h","i">>,
             <<"h","e","y">>,
             <<"t","h","a","n","k","s">>,
             <<"c","h","e","e","r","s">>,
             <<"l","o","l">>,
             <<"c","o","o","l">> >>],
       [tone |-> "negative", keywords |->
          << <<"p","r","o","b","l","e","m">>,
             <<"i","s","s","u","e">>,
             <<"e","r","r","o","r">>,
             <<"f","a","i","l","e","d">>,
             <<"d","i","s","a","p","p","o","i","n","t","e","d">>,
             <<"c","o","n","c","e","r","n">>,
             <<"c","o","m","p","l","a","i","n","t">> >>],
       [tone |-> "positive", keywords |->
          << <<"g","r","e","a","t">>,
             <<"e","x","c","e","l","l","e","n","t">>,
             <<"s","u","c","c","e","s","s">>,
             <<"h","a","p","p","y">>,
             <<"a","p","p","r","e","c","i","a","t","e">>,
             <<"t","h","a","n","k"," ","y","o","u">> >>] >>

main_stop_words ==
    { <<"t","h","e">>,
       <<"a">>,
       <<"a","n">>,
       <<"a","n","d">>,
       <<"o","r">>,
       <<"b","u","t">>,
       <<"i","n">>,
       <<"o","n">>,
       <<"a","t">>,
       <<"t","o">>,
       <<"f","o","r">>,
       <<"o","f">>,
       <<"w","i","t","h">>,
       <<"i","s">>,
       <<"b","e">>,
       <<"t","h","a","t">>,
       <<"t","h","i","s">>,
       <<"i","t">>,
       <<"f","r","o","m">> }

main_action_keywords ==
    << <<"p","l","e","a","s","e">>,
       <<"n","e","e","d">>,
       <<"c","a","n"," ","y","o","u">>,
       <<"c","o","u","l","d"," ","y","o","u">>,
       <<"w","i","l","l"," ","y","o","u">>,
       <<"w","o","u","l","d"," ","y","o","u">>,
       <<"s","h","o","u","l","d">>,
       <<"m","u","s","t">>,
       <<"r","e","q","u","i","r","e","d">> >>

main_extract_sender_info(email_data) ==
    LET sender == Strip(SenderField(email_data))
        p == NameMatch(sender)
        sender_name == IF p # 0 THEN Strip(SubSeq(sender, 1, p - 1)) ELSE <<>>
        sender_email == IF p # 0
                        THEN Strip(SubSeq(sender, p + 1, Len(sender) - 1))
                        ELSE sender
    IN [name   |-> sender_name,
        email  |-> sender_email,
        domain |-> IF Contains(sender_email, <<"@">>)
                   THEN SplitOn(sender_email, "@")[2]
                   ELSE <<"u","n","k","n","o","w","n">>]

\* the nested parse_recipients of main.py: the same pattern and loop
main_parse_recipients(recipient_string) ==
    IF recipient_string = <<>> THEN <<>>
    ELSE RecipientsFrom(recipient_string, 1, <<>>)

main_extract_recipient_info(email_data) ==
    [to  |-> main_parse_recipients(email_data.to),
     cc  |-> main_parse_recipients(email_data.cc),
     bcc |-> main_parse_recipients(email_data.bcc)]

\* main.py's analysis with the action items counted after the cut to three
main_analyze_email_content_counting_returned(email_data) ==
    LET subject == email_data.subject
        body == email_data.body
        full_text == Lower(subject \o <<" ">> \o body)
        word_count == Len(Split(body))
        detected_tone == DetectedTones(full_text, main_tone_indicators)
        action_items == Take(ActionLines(body, main_action_keywords), 3)
    IN [word_count |-> word_count,
        character_count |-> Len(body),
        question_count |-> Count(body, "?"),
        has_urgency |-> AnyKeyword(full_text, main_urgency_keywords),
        detected_tone |-> IF detected_tone # <<>> THEN detected_tone
                          ELSE <<"neutral">>,
        key_topics |-> KeyTopics(body, 5, main_stop_words),
        estimated_read_time_seconds |-> Max(10, (word_count \div 200) * 60),
        action_item_count |-> Len(action_items),
        action_items |-> action_items]

main_analyze_email_content(email_data) ==
    LET subject == email_data.subject
        body == email_data.body
        full_text == Lower(subject \o <<" ">> \o body)
        word_count == Len(Split(body))
        detected_tone == DetectedTones(full_text, main_tone_indicators)
        action_items == ActionLines(body, main_action_keywords)
    IN [word_count |-> word_count,
        character_count |-> Len(body),
        question_count |-> Count(body, "?"),
        has_urgency |-> AnyKeyword(full_text, main_urgency_keywords),
        detected_tone |-> IF detected_tone # <<>> THEN detected_tone
                          ELSE <<"neutral">>,
        key_topics |-> KeyTopics(body, 5, main_stop_words),
        estimated_read_time_seconds |-> Max(10, (word_count \div 200) * 60),
        action_item_count |-> Len(action_items),
        action_items |-> Take(action_items, 3)]

(***************************************************************************)
(* Cell values.  A cell is null, a boolean, an integer, a float or a       *)
(* string; a call argument may also be a list.  Every value carries its    *)
(* type tag t; n is the number and s the characters.  A float is kept as   *)
(* its number of hundredths, so 2.5 is FloatCell(250) and float(3) is      *)
(* FloatCell(300); every float of the model is a multiple of 0.01, or is   *)
(* rounded to one by round(x, 2) as soon as it is computed.                *)
(***************************************************************************)
Null == [t |-> "null", n |-> 0, s |-> <<>>]

BoolCell(b) == [t |-> "bool", n |-> IF b THEN 1 ELSE 0, s |-> <<>>]

IntCell(i) == [t |-> "int", n |-> i, s |-> <<>>]

FloatCell(h) == [t |-> "float", n |-> h, s |-> <<>>]

StrCell(chars) == [t |-> "str", n |-> 0, s |-> chars]

ListCell(len) == [t |-> "list", n |-> len, s |-> <<>>]

\* isinstance(v, (int, float)); bool is a subclass of int
IsNumber(v) == v.t \in {"bool", "int", "float"}

\* the hundredths of a number
Hundredths(v) == IF v.t = "float" THEN v.n ELSE v.n * 100

\* the value of a string of decimal digits
RECURSIVE DigitsValue(_)
DigitsValue(d) ==
    IF d = <<>> THEN 0
    ELSE DigitsValue(SubSeq(d, 1, Len(d) - 1)) * 10
         + (CHOOSE i \in DOMAIN Digits : Digits[i] = d[Len(d)]) - 1

\* float(v): ok is FALSE where Python raises TypeError (None, a list) or
\* ValueError (a string that spells no number).  A string is stripped and
\* read as an optional sign and decimal digits; the strings of the model
\* hold no ".", "e", "_", "inf" or "nan", the other spellings float() takes.
ToFloat(v) ==
    IF IsNumber(v) THEN [ok |-> TRUE, h |-> Hundredths(v)]
    ELSE IF v.t = "str"
    THEN LET t == Strip(v.s)
             signed == t # <<>> /\ t[1] \in {"+", "-"}
             d == IF signed THEN Tail(t) ELSE t
         IN IF d # <<>> /\ \A i \in DOMAIN d : d[i] \in Range(Digits)
            THEN [ok |-> TRUE,
                  h |-> (IF signed /\ t[1] = "-" THEN -100 ELSE 100)
                        * DigitsValue(d)]
            ELSE [ok |-> FALSE, h |-> 0]
    ELSE [ok |-> FALSE, h |-> 0]

\* a == b on cell values: numbers compare by value across bool, int and
\* float; a string equals only an equal string, None only None
PyEq(a, b) ==
    IF IsNumber(a) /\ IsNumber(b) THEN Hundredths(a) = Hundredths(b)
    ELSE a.t = b.t /\ a.n = b.n /\ a.s = b.s

\* str(i) for an integer i >= 0
RECURSIVE NatStr(_)
NatStr(i) ==
    IF i < 10 THEN <<Digits[i + 1]>>
    ELSE NatStr(i \div 10) \o <<Digits[(i % 10) + 1]>>

IntStr(i) == IF i < 0 THEN <<"-">> \o NatStr(-i) ELSE NatStr(i)

\* str(x) for a float of h hundredths: "2.0", "2.5", "2.25"
FloatStr(h) ==
    LET a == IF h < 0 THEN -h ELSE h
        frac == a % 100
    IN (IF h < 0 THEN <<"-">> ELSE <<>>) \o NatStr(a \div 100) \o <<".">>
       \o (IF frac % 10 = 0 THEN NatStr(frac \div 10)
           ELSE <<Digits[(frac \div 10) + 1], Digits[(frac % 10) + 1]>>)

\* str(v)
PyStr(v) ==
    CASE v.t = "null"  -> <<"N","o","n","e">>
      [] v.t = "bool"  -> IF v.n = 1 THEN <<"T","r","u","e">>
                          ELSE <<"F","a","l","s","e">>
      [] v.t = "int"   -> IntStr(v.n)
      [] v.t = "float" -> FloatStr(v.n)
      [] v.t = "str"   -> v.s
      [] OTHER         -> <<"[","]">>

\* round(a / b, 2) in hundredths, for a in hundredths and b > 0: to the
\* nearest hundredth, an exact half to the even one
RoundDiv(a, b) ==
    LET q == a \div b
        r == a % b
    IN IF 2 * r < b THEN q
       ELSE IF 2 * r > b THEN q + 1
       ELSE IF q % 2 = 0 THEN q ELSE q + 1

(***************************************************************************)
(* Rows.  A row is a dict: the sequence of its (key, value) items in       *)
(* insertion order, the keys distinct.  A table is a sequence of rows.     *)
(***************************************************************************)
Item(key, value) == [k |-> key, v |-> value]

\* list(row.keys())
Keys(row) == [i \in DOMAIN row |-> row[i].k]

\* key in row
HasKey(row, key) == \E i \in DOMAIN row : row[i].k = key

\* row.get(key): None for a key the row does not have
Get(row, key) ==
    IF HasKey(row, key)
    THEN row[CHOOSE i \in DOMAIN row : row[i].k = key].v
    ELSE Null

\* what a call hands back: its return value, or the exception it raised
Returned(value) == [exc |-> "none", val |-> value]

Raised(exception) == [exc |-> exception, val |-> <<>>]

(***************************************************************************)
(* analyzers/spreadsheet_analyzer.py                                       *)
(***************************************************************************)
\* the type tag of the first non-null value of a column
ColumnType(data, col) ==
    LET present(row) == Get(row, col).t # "null"
        sample_values == SelectSeq(data, present)
        value == Get(sample_values[1], col)
    IN IF sample_values = <<>> THEN "unknown"
       ELSE CASE value.t = "bool"  -> "boolean"
              [] value.t = "int"   -> "integer"
              [] value.t = "float" -> "float"
              [] value.t = "str"   -> "string"
              [] OTHER             -> value.t

detect_column_types(data, columns) ==
    [i \in DOMAIN columns |-> Item(columns[i], ColumnType(data, columns[i]))]

validate_spreadsheet_structure(data) ==
    IF data = <<>>
    THEN Returned([is_valid |-> FALSE,
                   message |-> "Spreadsheet is empty",
                   row_count |-> 0,
                   column_count |-> 0,
                   columns |-> <<>>])
    ELSE LET columns == Keys(data[1])
             row_count == Len(data)
             column_count == Len(columns)
             missing_count ==
                 Cardinality({p \in (DOMAIN data) \X (DOMAIN columns) :
                                 Get(data[p[1]], columns[p[2]]).t = "null"})
         IN \* the guard of the division is row_count > 0 alone
            IF row_count > 0 /\ row_count * column_count = 0
            THEN Raised("ZeroDivisionError")
            ELSE Returned(
                   [is_valid |-> TRUE,
                    row_count |-> row_count,
                    column_count |-> column_count,
                    columns |-> columns,
                    missing_values |-> missing_count,
                    missing_percentage |->
                        IF row_count > 0
                        THEN FloatCell(RoundDiv(missing_count * 10000,
                                            row_count * column_count))
                        ELSE IntCell(0),
                    data_types |-> detect_column_types(data, columns)])

\* list.sort() on numbers: ascending
RECURSIVE SortAsc(_, _)
SortAsc(xs, acc) ==
    IF xs = <<>> THEN acc
    ELSE LET x == Head(xs)
             before == Cardinality({i \in DOMAIN acc : acc[i] <= x})
         IN SortAsc(Tail(xs),
               SubSeq(acc, 1, before) \o <<x>> \o SubSeq(acc, before + 1, Len(acc)))

RECURSIVE Sum(_)
Sum(xs) == IF xs = <<>> THEN 0 ELSE Head(xs) + Sum(Tail(xs))

\* round(sqrt(variance), 2) in hundredths, for values in hundredths:
\* n * n * variance = n * sum(x^2) - sum(x)^2, and k is the rounded root
\* when (2k - 1)^2 <= 4 * variance < (2k + 1)^2
RoundedStdDev(values) ==
    LET n == Len(values)
        v == n * Sum([i \in DOMAIN values |-> values[i] * values[i]])
             - Sum(values) * Sum(values)
        spread == values[n] - values[1]
    IN CHOOSE k \in 0..(spread + 1) :
          /\ k > 0 => (2 * k - 1) * (2 * k - 1) * n * n <= 4 * v
          /\ 4 * v < (2 * k + 1) * (2 * k + 1) * n * n

\* the test of the collecting loop by what float() accepts instead of by
\* the type: a string that spells a number passes too
IsNumericValueByCoercion(val) == ToFloat(val).ok

\* val is not None and isinstance(val, (int, float))
IsNumericValue(val) == val.t # "null" /\ IsNumber(val)

\* the statistics with the median of an even number of values taken as
\* the upper of the two middle values instead of their average
analyze_numeric_column_upper_median(data, column) ==
    LET numeric(row) == IsNumericValue(Get(row, column))
        rows == SelectSeq(data, numeric)
        unsorted == [i \in DOMAIN rows |-> Hundredths(Get(rows[i], column))]
        values == SortAsc(unsorted, <<>>)
        n == Len(values)
        sum_val == Sum(values)
        median == values[(n \div 2) + 1]
    IN IF unsorted = <<>>
       THEN Returned([error |-> column])
       ELSE Returned(
              [column |-> column,
               count |-> n,
               sum |-> FloatCell(sum_val),
               mean |-> FloatCell(RoundDiv(sum_val, n)),
               median |-> FloatCell(median),
               min |-> FloatCell(values[1]),
               max |-> FloatCell(values[n]),
               range |-> FloatCell(values[n] - values[1]),
               std_dev |-> FloatCell(RoundedStdDev(values)),
               q1 |-> IF n > 3 THEN FloatCell(values[(n \div 4) + 1]) ELSE Null,
               q3 |-> IF n > 3 THEN FloatCell(values[((3 * n) \div 4) + 1]) ELSE Null])

analyze_numeric_column(data, column) ==
    LET numeric(row) == IsNumericValue(Get(row, column))
        rows == SelectSeq(data, numeric)
        unsorted == [i \in DOMAIN rows |-> Hundredths(Get(rows[i], column))]
        values == SortAsc(unsorted, <<>>)
        n == Len(values)
        sum_val == Sum(values)
        median == IF n % 2 = 0
                  THEN RoundDiv(values[n \div 2] + values[(n \div 2) + 1], 2)
                  ELSE values[(n \div 2) + 1]
    IN IF unsorted = <<>>
       THEN Returned([error |-> column])
       ELSE Returned(
              [column |-> column,
               count |-> n,
               sum |-> FloatCell(sum_val),
               mean |-> FloatCell(RoundDiv(sum_val, n)),
               median |-> FloatCell(median),
               min |-> FloatCell(values[1]),
               max |-> FloatCell(values[n]),
               range |-> FloatCell(values[n] - values[1]),
               std_dev |-> FloatCell(RoundedStdDev(values)),
               q1 |-> IF n > 3 THEN FloatCell(values[(n \div 4) + 1]) ELSE Null,
               q3 |-> IF n > 3 THEN FloatCell(values[((3 * n) \div 4) + 1]) ELSE Null])

\* the numeric test with the >= branch a copy of the > branch
NumericTestCopiedBranch(operator, cell_value, value) ==
    LET a == ToFloat(cell_value)
        b == ToFloat(value)
    IN /\ a.ok
       /\ b.ok
       /\ CASE operator = ">"  -> a.h > b.h
            [] operator = "<"  -> a.h < b.h
            [] operator = ">=" -> a.h > b.h
            [] operator = "<=" -> a.h <= b.h

\* float(cell_value) <op> float(value) inside try/except (TypeError,
\* ValueError): FALSE when either coercion fails
NumericTest(operator, cell_value, value) ==
    LET a == ToFloat(cell_value)
        b == ToFloat(value)
    IN /\ a.ok
       /\ b.ok
       /\ CASE operator = ">"  -> a.h > b.h
            [] operator = "<"  -> a.h < b.h
            [] operator = ">=" -> a.h >= b.h
            [] operator = "<=" -> a.h <= b.h

\* the loop body with the value of contains lower-cased as the cell is
FilterStepLoweringValue(row, column, operator, value) ==
    LET cell_value == Get(row, column)
    IN IF operator = "=" \/ operator = "=="
       THEN IF PyEq(cell_value, value) THEN "keep" ELSE "drop"
       ELSE IF operator = "!="
       THEN IF ~PyEq(cell_value, value) THEN "keep" ELSE "drop"
       ELSE IF operator \in {">", "<", ">=", "<="}
       THEN IF NumericTest(operator, cell_value, value) THEN "keep" ELSE "drop"
       ELSE IF operator = "contains"
       THEN IF value.t # "str" THEN "TypeError"
            ELSE IF Contains(Lower(PyStr(cell_value)), Lower(value.s))
            THEN "keep" ELSE "drop"
       ELSE "drop"

\* one pass of the loop body of filter_data: the row is appended ("keep"),
\* passed over ("drop"), or the test raises
FilterStep(row, column, operator, value) ==
    LET cell_value == Get(row, column)
    IN IF operator = "=" \/ operator = "=="
       THEN IF PyEq(cell_value, value) THEN "keep" ELSE "drop"
       ELSE IF operator = "!="
       THEN IF ~PyEq(cell_value, value) THEN "keep" ELSE "drop"
       ELSE IF operator \in {">", "<", ">=", "<="}
       THEN IF NumericTest(operator, cell_value, value) THEN "keep" ELSE "drop"
       ELSE IF operator = "contains"
       THEN \* value in str(cell_value).lower(): TypeError unless value is a str
            IF value.t # "str" THEN "TypeError"
            ELSE IF Contains(Lower(PyStr(cell_value)), value.s)
            THEN "keep" ELSE "drop"
       ELSE "drop"

\* filter_data without the check of the first row: every row is tested
filter_data_testing_every_row(data, column, operator, value) ==
    LET step(row) == FilterStep(row, column, operator, value)
        kept(row) == step(row) = "keep"
    IN IF \E i \in DOMAIN data : step(data[i]) \notin {"keep", "drop"}
       THEN Raised("TypeError")
       ELSE Returned(SelectSeq(data, kept))

filter_data(data, column, operator, value) ==
    IF data = <<>> \/ ~HasKey(data[1], column) THEN Returned(<<>>)
    ELSE LET step(row) == FilterStep(row, column, operator, value)
             kept(row) == step(row) = "keep"
         IN IF \E i \in DOMAIN data : step(data[i]) \notin {"keep", "drop"}
            THEN Raised("TypeError")
            ELSE Returned(SelectSeq(data, kept))

\* the first loop with the groups kept in a dict that is rebuilt with the
\* newest key first
RECURSIVE GroupedNewestFirst(_, _, _, _, _, _)
GroupedNewestFirst(data, i, group_by, aggregate_column, operation, groups) ==
    IF i > Len(data) THEN groups
    ELSE LET key == Get(data[i], group_by)
             value == Get(data[i], aggregate_column)
             with_key == IF \E g \in DOMAIN groups : PyEq(groups[g].k, key)
                         THEN groups ELSE <<Item(key, <<>>)>> \o groups
             g == CHOOSE g \in DOMAIN with_key : PyEq(with_key[g].k, key)
             f == ToFloat(value)
             add == IF value.t = "null" THEN <<>>
                    ELSE IF f.ok THEN <<FloatCell(f.h)>>
                    ELSE IF operation = "count" THEN <<IntCell(1)>>
                    ELSE <<>>
         IN GroupedNewestFirst(data, i + 1, group_by, aggregate_column,
                               operation, [with_key EXCEPT ![g].v = @ \o add])

\* the first loop without the unit appended under count when float()
\* fails: only the numbers are collected
RECURSIVE GroupedNumbersOnly(_, _, _, _, _, _)
GroupedNumbersOnly(data, i, group_by, aggregate_column, operation, groups) ==
    IF i > Len(data) THEN groups
    ELSE LET key == Get(data[i], group_by)
             value == Get(data[i], aggregate_column)
             with_key == IF \E g \in DOMAIN groups : PyEq(groups[g].k, key)
                         THEN groups ELSE Append(groups, Item(key, <<>>))
             g == CHOOSE g \in DOMAIN with_key : PyEq(with_key[g].k, key)
             f == ToFloat(value)
             add == IF value.t = "null" THEN <<>>
                    ELSE IF f.ok THEN <<FloatCell(f.h)>>
                    ELSE <<>>
         IN GroupedNumbersOnly(data, i + 1, group_by, aggregate_column,
                               operation, [with_key EXCEPT ![g].v = @ \o add])

\* the first loop of aggregate_data over the rows from position i on:
\* groups is the dict as its (key, values) items in insertion order
RECURSIVE Grouped(_, _, _, _, _, _)
Grouped(data, i, group_by, aggregate_column, operation, groups) ==
    IF i > Len(data) THEN groups
    ELSE LET key == Get(data[i], group_by)
             value == Get(data[i], aggregate_column)
             with_key == IF \E g \in DOMAIN groups : PyEq(groups[g].k, key)
                         THEN groups ELSE Append(groups, Item(key, <<>>))
             g == CHOOSE g \in DOMAIN with_key : PyEq(with_key[g].k, key)
             f == ToFloat(value)
             add == IF value.t = "null" THEN <<>>
                    ELSE IF f.ok THEN <<FloatCell(f.h)>>
                    ELSE IF operation = "count" THEN <<IntCell(1)>>
                    ELSE <<>>
         IN Grouped(data, i + 1, group_by, aggregate_column, operation,
                    [with_key EXCEPT ![g].v = @ \o add])

Minimum(xs) == CHOOSE x \in Range(xs) : \A y \in Range(xs) : x <= y

Maximum(xs) == CHOOSE x \in Range(xs) : \A y \in Range(xs) : x >= y

\* the result of one group with the chain of operations ending in an else
\* that averages instead of skipping
GroupResultDefaultingToAverage(values, operation) ==
    LET hs == [i \in DOMAIN values |-> Hundredths(values[i])]
    IN IF values = <<>> THEN <<>>
       ELSE IF operation = "sum" THEN <<FloatCell(Sum(hs))>>
       ELSE IF operation = "count" THEN <<IntCell(Len(values))>>
       ELSE IF operation = "min" THEN <<FloatCell(Minimum(hs))>>
       ELSE IF operation = "max" THEN <<FloatCell(Maximum(hs))>>
       ELSE <<FloatCell(RoundDiv(Sum(hs), Len(hs)))>>

\* the result of one group; none when the second loop takes continue
GroupResult(values, operation) ==
    LET hs == [i \in DOMAIN values |-> Hundredths(values[i])]
    IN IF values = <<>> THEN <<>>
       ELSE IF operation = "sum" THEN <<FloatCell(Sum(hs))>>
       ELSE IF operation = "avg" \/ operation = "average"
       THEN <<FloatCell(RoundDiv(Sum(hs), Len(hs)))>>
       ELSE IF operation = "count" THEN <<IntCell(Len(values))>>
       ELSE IF operation = "min" THEN <<FloatCell(Minimum(hs))>>
       ELSE IF operation = "max" THEN <<FloatCell(Maximum(hs))>>
       ELSE <<>>

\* the second loop of aggregate_data over the groups from position g on
RECURSIVE Aggregated(_, _, _, _, _, _)
Aggregated(groups, g, group_by, aggregate_column, operation, results) ==
    IF g > Len(groups) THEN results
    ELSE LET r == GroupResult(groups[g].v, operation)
             entry == <<Item(group_by, groups[g].k),
                        Item(operation \o "(" \o aggregate_column \o ")", r[1])>>
         IN Aggregated(groups, g + 1, group_by, aggregate_column, operation,
                       IF r = <<>> THEN results ELSE Append(results, entry))

aggregate_data(data, group_by, aggregate_column, operation) ==
    Returned(Aggregated(
        Grouped(data, 1, group_by, aggregate_column, operation, <<>>),
        1, group_by, aggregate_column, operation, <<>>))

(***************************************************************************)
(* The calls: bounded sets the arguments are drawn from                    *)
(***************************************************************************)
\* the sequences over S of length at most n
SeqsUpTo(S, n) == UNION {[1..k -> S] : k \in 0..n}

\* sep.join(parts)
RECURSIVE Join(_, _)
Join(parts, sep) ==
    IF parts = <<>> THEN <<>>
    ELSE IF Len(parts) = 1 THEN parts[1]
    ELSE parts[1] \o sep \o Join(Tail(parts), sep)

MaxChunks == 3

MaxLines == 4

MaxWords == 201

MaxAddressChunks == 4

MaxRecipientChunks == 3

\* the pieces the texts given to the tone detection are made of
ToneChunks ==
    { <<"D","e","a","r">>,
      <<"h","i">>,
      <<"E","R","R","O","R">>,
      <<"t","h","a","n","k">>,
      <<" ","y","o","u">>,
      <<"h","e","r","e","b","y">> }

\* the subject lines
Subjects ==
    { <<>>,
      <<"U","R","G","E","N","T",":"," ","G","r","e","a","t"," ","n","e","w","s">> }

\* the lines the multi-line bodies are made of
Lines ==
    { <<"P","l","e","a","s","e"," ","r","e","v","i","e","w"," ","b","u","d","g","e","t"," ","b","u","d","g","e","t">>,
      <<" ","w","e"," ","N","E","E","D"," ","R","e","p","o","r","t"," ","r","e","p","o","r","t","?"," ">>,
      <<"h","e","l","l","o"," ","t","e","a","m">> }

\* the pieces the sender strings are made of
AddressChunks ==
    { <<"J","a","n","e"," ","D","o","e"," ","<">>,
      <<"j","a","n","e","@">>,
      <<"c","o",".","c","o","m">>,
      <<">">>,
      <<"@">>,
      <<" ">> }

\* the pieces the recipient strings are made of
RecipientChunks ==
    { <<"a","@","x",".","c","o","m">>,
      <<",">>,
      <<" ","B"," ","<","b","@","y",".","c","o","m",">">>,
      <<" ">>,
      <<"<">>,
      <<">">> }

MaxRows == 3

MaxNumericRows == 4

\* the rows given to validate_spreadsheet_structure
ValidateRows ==
    { <<>>,
      <<Item("a", IntCell(1))>>,
      <<Item("a", Null)>>,
      <<Item("a", FloatCell(250)), Item("b", StrCell(<<"x">>))>>,
      <<Item("b", BoolCell(TRUE)), Item("a", Null)>>,
      <<Item("b", StrCell(<<"x">>))>> }

\* the rows given to analyze_numeric_column
NumericRows ==
    { <<Item("a", Null)>>,
      <<Item("a", BoolCell(TRUE))>>,
      <<Item("a", IntCell(1))>>,
      <<Item("a", IntCell(2))>>,
      <<Item("a", IntCell(3))>>,
      <<Item("a", IntCell(4))>>,
      <<Item("a", FloatCell(250))>>,
      <<Item("a", StrCell(<<"2">>))>>,
      <<Item("b", IntCell(3))>> }

\* the rows given to filter_data
FilterRows ==
    { <<Item("a", IntCell(2))>>,
      <<Item("a", IntCell(3)), Item("b", StrCell(<<"x">>))>>,
      <<Item("a", StrCell(<<"2">>)), Item("b", Null)>>,
      <<Item("a", StrCell(<<"A","b">>))>>,
      <<Item("b", StrCell(<<"x">>))>> }

FilterColumns == {"a", "b"}

\* the eight operators of filter_data and one it does not know
FilterOperators == {"=", "==", "!=", ">", "<", ">=", "<=", "contains", "like"}

FilterValues ==
    {IntCell(2), StrCell(<<"2">>), StrCell(<<"b">>), StrCell(<<"B">>), Null}

\* the rows given to aggregate_data: a group and a value
AggregateRows ==
    {<<Item("g", StrCell(<<g>>)), Item("c", c)>> :
        g \in {"A", "B"}, c \in {IntCell(1), IntCell(2), IntCell(3), Null}}
    \cup {<<Item("g", StrCell(<<"A">>)), Item("c", StrCell(<<"x">>))>>}

\* the six operations of aggregate_data and one it does not know
AggregateOperations ==
    {"sum", "avg", "average", "count", "min", "max", "median"}

ChunkTexts == {Concat(cs) : cs \in SeqsUpTo(ToneChunks, MaxChunks)}

\* subject, a blank, body: the text analyze_email_content hands to
\* detect_tone
ToneTexts == {s \o <<" ">> \o b : s \in Subjects, b \in ChunkTexts}

LineBodies == {Join(ls, <<"\n">>) : ls \in SeqsUpTo(Lines, MaxLines)}

\* a body of k words, alternately "x" and "xy", separated alternately by a
\* blank and by a line break and a blank
WordPattern == <<"x", " ", "x", "y", "\n", " ">>

WordBody(k) ==
    [i \in 1..(IF k % 2 = 0 THEN 3 * k ELSE 3 * k - 2) |->
        WordPattern[((i - 1) % 6) + 1]]

WordBodies == {WordBody(k) : k \in 0..MaxWords}

Bodies == ChunkTexts \cup LineBodies \cup WordBodies

SenderStrings == {Concat(cs) : cs \in SeqsUpTo(AddressChunks, MaxAddressChunks)}

RecipientStrings ==
    {Concat(cs) : cs \in SeqsUpTo(RecipientChunks, MaxRecipientChunks)}

(***************************************************************************)
(* The request cycle                                                       *)
(***************************************************************************)
NoArgs == [none |-> TRUE]

Pending == [exc |-> "pending", val |-> <<>>]

Init ==
    /\ pc = "idle"
    /\ tool = "none"
    /\ args = NoArgs
    /\ result = Pending

\* a call of function f with arguments a arrives
Invoke(f, a) ==
    /\ pc' = "called"
    /\ tool' = f
    /\ args' = a
    /\ result' = Pending

\* the function called has run to its end on the arguments and left r;
\* the arguments are as the caller gave them
Reply(r) ==
    /\ pc' = "returned"
    /\ result' = r
    /\ UNCHANGED <<tool, args>>

\* the reply is handed back; nothing is kept between calls
Return ==
    /\ pc = "returned"
    /\ pc' = "idle"
    /\ tool' = "none"
    /\ args' = NoArgs
    /\ result' = Pending

InvokeDetectTone ==
    /\ pc = "idle"
    /\ \E text \in ToneTexts : Invoke("detect_tone", [text |-> text])

RunDetectTone ==
    /\ pc = "called"
    /\ tool = "detect_tone"
    /\ Reply(Returned(detect_tone(args.text)))

InvokeAnalyzeEmailContent ==
    /\ pc = "idle"
    /\ \E subject \in Subjects, body \in Bodies :
        Invoke("analyze_email_content", [subject |-> subject, body |-> body])

RunAnalyzeEmailContent ==
    /\ pc = "called"
    /\ tool = "analyze_email_content"
    /\ Reply(Returned(analyze_email_content(args)))

InvokeMainAnalyzeEmailContent ==
    /\ pc = "idle"
    /\ \E subject \in Subjects, body \in Bodies :
        Invoke("main.analyze_email_content",
               [subject |-> subject, body |-> body])

RunMainAnalyzeEmailContent ==
    /\ pc = "called"
    /\ tool = "main.analyze_email_content"
    /\ Reply(Returned(main_analyze_email_content(args)))

InvokeExtractSenderInfo ==
    /\ pc = "idle"
    /\ \E from \in SenderStrings :
        Invoke("extract_sender_info", [from |-> from, sender |-> <<>>])

RunExtractSenderInfo ==
    /\ pc = "called"
    /\ tool = "extract_sender_info"
    /\ Reply(Returned(extract_sender_info(args)))

InvokeMainExtractSenderInfo ==
    /\ pc = "idle"
    /\ \E from \in SenderStrings :
        Invoke("main.extract_sender_info", [from |-> from, sender |-> <<>>])

RunMainExtractSenderInfo ==
    /\ pc = "called"
    /\ tool = "main.extract_sender_info"
    /\ Reply(Returned(main_extract_sender_info(args)))

InvokeParseRecipients ==
    /\ pc = "idle"
    /\ \E s \in RecipientStrings :
        Invoke("parse_recipients", [recipient_string |-> s])

RunParseRecipients ==
    /\ pc = "called"
    /\ tool = "parse_recipients"
    /\ Reply(Returned(parse_recipients(args.recipient_string)))

InvokeMainParseRecipients ==
    /\ pc = "idle"
    /\ \E s \in RecipientStrings :
        Invoke("main.parse_recipients", [recipient_string |-> s])

RunMainParseRecipients ==
    /\ pc = "called"
    /\ tool = "main.parse_recipients"
    /\ Reply(Returned(main_parse_recipients(args.recipient_string)))

\* the content analysis: utils.detect_tone and both analyze_email_content
NextContent ==
    \/ InvokeDetectTone
    \/ RunDetectTone
    \/ InvokeAnalyzeEmailContent
    \/ RunAnalyzeEmailContent
    \/ InvokeMainAnalyzeEmailContent
    \/ RunMainAnalyzeEmailContent
    \/ Return

SpecContent == Init /\ [][NextContent]_vars

\* the address parsing: senders and recipient lists, both copies
NextAddress ==
    \/ InvokeExtractSenderInfo
    \/ RunExtractSenderInfo
    \/ InvokeMainExtractSenderInfo
    \/ RunMainExtractSenderInfo
    \/ InvokeParseRecipients
    \/ RunParseRecipients
    \/ InvokeMainParseRecipients
    \/ RunMainParseRecipients
    \/ Return

SpecAddress == Init /\ [][NextAddress]_vars

InvokeValidate ==
    /\ pc = "idle"
    /\ \E data \in SeqsUpTo(ValidateRows, MaxRows) :
        Invoke("validate_spreadsheet_structure", [data |-> data])

RunValidate ==
    /\ pc = "called"
    /\ tool = "validate_spreadsheet_structure"
    /\ Reply(validate_spreadsheet_structure(args.data))

InvokeAnalyzeNumericColumn ==
    /\ pc = "idle"
    /\ \E data \in SeqsUpTo(NumericRows, MaxNumericRows), column \in {"a", "zz"} :
        Invoke("analyze_numeric_column", [data |-> data, column |-> column])

RunAnalyzeNumericColumn ==
    /\ pc = "called"
    /\ tool = "analyze_numeric_column"
    /\ Reply(analyze_numeric_column(args.data, args.column))

InvokeFilterData ==
    /\ pc = "idle"
    /\ \E data \in SeqsUpTo(FilterRows, MaxRows), column \in FilterColumns,
       operator \in FilterOperators, value \in FilterValues :
        Invoke("filter_data",
               [data |-> data, column |-> column,
                operator |-> operator, value |-> value])

RunFilterData ==
    /\ pc = "called"
    /\ tool = "filter_data"
    /\ Reply(filter_data(args.data, args.column, args.operator, args.value))

\* the table a call of filter_data returned is given to filter_data again,
\* with the same column, operator and value
InvokeFilterDataOnResult ==
    /\ pc = "returned"
    /\ tool = "filter_data"
    /\ result.exc = "none"
    /\ Invoke("filter_data again", [args EXCEPT !.data = result.val])

RunFilterDataOnResult ==
    /\ pc = "called"
    /\ tool = "filter_data again"
    /\ Reply(filter_data(args.data, args.column, args.operator, args.value))

InvokeAggregateData ==
    /\ pc = "idle"
    /\ \E data \in SeqsUpTo(AggregateRows, MaxRows),
       operation \in AggregateOperations :
        Invoke("aggregate_data",
               [data |-> data, group_by |-> "g", aggregate_column |-> "c",
                operation |-> operation])

RunAggregateData ==
    /\ pc = "called"
    /\ tool = "aggregate_data"
    /\ Reply(aggregate_data(
          args.data, args.group_by, args.aggregate_column, args.operation))

\* the structure check and the column statistics
NextColumns ==
    \/ InvokeValidate
    \/ RunValidate
    \/ InvokeAnalyzeNumericColumn
    \/ RunAnalyzeNumericColumn
    \/ Return

SpecColumns == Init /\ [][NextColumns]_vars

\* filtering and grouped aggregation
NextRows ==
    \/ InvokeFilterData
    \/ RunFilterData
    \/ InvokeFilterDataOnResult
    \/ RunFilterDataOnResult
    \/ InvokeAggregateData
    \/ RunAggregateData
    \/ Return

SpecRows == Init /\ [][NextRows]_vars

\* the longest text of words given to extract_key_topics
MaxTopicWords == 5

\* the largest top_n given to extract_key_topics
MaxTopN == 2

\* the words of those texts: two spellings of one topic, a second topic, a
\* stop word, a short word and a word that is not alphanumeric
TopicWords ==
    { <<"p","l","a","n">>,
      <<"P","l","a","n">>,
      <<"t","e","a","m">>,
      <<"w","i","t","h">>,
      <<"c","a","t">>,
      <<"p","l","-","n">> }

TopicTexts == {Join(ws, <<" ">>) : ws \in SeqsUpTo(TopicWords, MaxTopicWords)}

InvokeExtractKeyTopics ==
    /\ pc = "idle"
    /\ \E text \in TopicTexts, top_n \in 0..MaxTopN :
        Invoke("extract_key_topics", [text |-> text, top_n |-> top_n])

RunExtractKeyTopics ==
    /\ pc = "called"
    /\ tool = "extract_key_topics"
    /\ Reply(Returned(extract_key_topics(args.text, args.top_n)))

\* the key topics of a text
NextTopics ==
    \/ InvokeExtractKeyTopics
    \/ RunExtractKeyTopics
    \/ Return

SpecTopics == Init /\ [][NextTopics]_vars

(***************************************************************************)
(* Properties                                                              *)
(***************************************************************************)
\* the call of function f has run and its reply is at hand
Replied(f) == pc = "returned" /\ tool = f

\* kw occurs in text when the case of the letters of text is ignored
OccursIgnoringCase(text, kw) ==
    \E i \in 0..(Len(text) - Len(kw)) :
        \A j \in 1..Len(kw) : LowerChar(text[i + j]) = kw[j]

\* the tone labels in their declaration order
ToneOrder == <<"formal", "casual", "negative", "positive">>

\* some keyword of the category occurs in the text
ToneMatches(text, table, label) ==
    \E e \in DOMAIN table :
        /\ table[e].tone = label
        /\ \E k \in DOMAIN table[e].keywords :
              OccursIgnoringCase(text, table[e].keywords[k])

\* what the tone detection is to return on text with the keyword table
ExpectedTones(text, table) ==
    LET matching(label) == ToneMatches(text, table, label)
        labels == SelectSeq(ToneOrder, matching)
    IN IF labels = <<>> THEN <<"neutral">> ELSE labels

\* a non-empty list of tone labels without duplicates, "neutral" only alone
WellFormedTones(tones) ==
    /\ tones # <<>>
    /\ \A i, j \in DOMAIN tones : i # j => tones[i] # tones[j]
    /\ (\E i \in DOMAIN tones : tones[i] = "neutral") => tones = <<"neutral">>

\* the text both copies of analyze_email_content search for tones
FullText == args.subject \o <<" ">> \o args.body

\* C1: the tone detection (utils.detect_tone, also as called by
\* analyze_email_content, and main.py's inline copy with its own table)
\* never returns an empty list: it returns <<"neutral">> when no keyword of
\* the four categories occurs in the text, case ignored, and otherwise the
\* matching categories in the order formal, casual, negative, positive,
\* without duplicates and without "neutral".
C1_DetectToneResult ==
    /\ Replied("detect_tone") =>
          /\ WellFormedTones(result.val)
          /\ result.val = ExpectedTones(args.text, TONE_INDICATORS)
    /\ Replied("analyze_email_content") =>
          /\ WellFormedTones(result.val.detected_tone)
          /\ result.val.detected_tone = ExpectedTones(FullText, TONE_INDICATORS)
    /\ Replied("main.analyze_email_content") =>
          /\ WellFormedTones(result.val.detected_tone)
          /\ result.val.detected_tone
                = ExpectedTones(FullText, main_tone_indicators)

\* a text with a keyword of every category has come back with all four
\* labels
C1_Witness ==
    /\ Replied("detect_tone")
    /\ result.val = ToneOrder

\* the number of whitespace-delimited tokens of s: the places where a
\* token starts
TokenCount(s) ==
    Cardinality({i \in DOMAIN s :
                    s[i] \notin Whitespace /\ (i = 1 \/ s[i - 1] \in Whitespace)})

\* C8: in both copies of analyze_email_content, estimated_read_time_seconds
\* is max(10, (wordCount // 200) * 60) for wordCount the number of
\* whitespace-delimited tokens of the body alone, whatever the subject: 10
\* below 200 words, 60 at exactly 200, and always 10 or a positive multiple
\* of 60.
C8_ReadTime ==
    (Replied("analyze_email_content") \/ Replied("main.analyze_email_content"))
    => LET wordCount == TokenCount(args.body)
           seconds == result.val.estimated_read_time_seconds
       IN /\ result.val.word_count = wordCount
          /\ seconds = (IF (wordCount \div 200) * 60 > 10
                        THEN (wordCount \div 200) * 60 ELSE 10)
          /\ wordCount < 200 => seconds = 10
          /\ wordCount = 200 => seconds = 60
          /\ seconds = 10 \/ (seconds > 0 /\ seconds % 60 = 0)

\* a body of exactly 200 words under a non-empty subject has been given
\* 60 seconds
C8_Witness ==
    /\ Replied("analyze_email_content")
    /\ TokenCount(args.body) = 200
    /\ args.subject # <<>>
    /\ result.val.estimated_read_time_seconds = 60

\* the string "unknown"
Unknown == <<"u","n","k","n","o","w","n">>

\* the whole of email after its first "@"
AfterFirstAt(email) ==
    LET at == CHOOSE i \in DOMAIN email :
                 email[i] = "@" /\ \A k \in 1..(i - 1) : email[k] # "@"
    IN SubSeq(email, at + 1, Len(email))

\* the domain of an address is everything after the first "@" of its
\* email, and "unknown" exactly when the email has no "@"
DomainOfEmail(entry) ==
    /\ (\E i \in DOMAIN entry.email : entry.email[i] = "@")
          => entry.domain = AfterFirstAt(entry.email)
    /\ (entry.domain = Unknown)
          <=> ~(\E i \in DOMAIN entry.email : entry.email[i] = "@")

\* C5: the domain of every parsed address (the sender of either copy of
\* extract_sender_info, each entry of either copy of parse_recipients) is
\* the whole substring of its email after the first "@", also for an email
\* with more than one "@", and is "unknown" exactly when the email has no
\* "@".
C5_DomainAfterFirstAt ==
    /\ (Replied("extract_sender_info") \/ Replied("main.extract_sender_info"))
          => DomainOfEmail(result.val)
    /\ (Replied("parse_recipients") \/ Replied("main.parse_recipients"))
          => \A i \in DOMAIN result.val : DomainOfEmail(result.val[i])

\* the emails es occur in s one after the other, from position start on
RECURSIVE OccurInOrder(_, _, _)
OccurInOrder(es, s, start) ==
    \/ es = <<>>
    \/ /\ es # <<>>
       /\ \E i \in start..(Len(s) - Len(Head(es)) + 1) :
             /\ SubSeq(s, i, i + Len(Head(es)) - 1) = Head(es)
             /\ OccurInOrder(Tail(es), s, i + Len(Head(es)))

\* "a@x.com, B <b@y.com>"
TwoRecipients ==
    <<"a","@","x",".","c","o","m",","," ","B"," ","<","b","@","y",".","c","o","m",">">>

\* C9: both copies of parse_recipients return the recipients in the order
\* in which they stand in the input, return no entry with an empty email,
\* return the empty list for the empty input, and for
\* "a@x.com, B <b@y.com>" return exactly the bare address a@x.com with an
\* empty name and domain x.com, then B with email b@y.com and domain y.com.
C9_ParseRecipients ==
    (Replied("parse_recipients") \/ Replied("main.parse_recipients"))
    => LET s == args.recipient_string
           r == result.val
       IN /\ s = <<>> => r = <<>>
          /\ \A i \in DOMAIN r : r[i].email # <<>>
          /\ OccurInOrder([i \in DOMAIN r |-> r[i].email], s, 1)
          /\ s = TwoRecipients =>
                r = << [name |-> <<>>,
                        email |-> <<"a","@","x",".","c","o","m">>,
                        domain |-> <<"x",".","c","o","m">>],
                       [name |-> <<"B">>,
                        email |-> <<"b","@","y",".","c","o","m">>,
                        domain |-> <<"y",".","c","o","m">>] >>

\* "a@x.com, B <b@y.com>" has been parsed into two entries
C9_Witness ==
    /\ Replied("parse_recipients")
    /\ args.recipient_string = TwoRecipients
    /\ Len(result.val) = 2

\* the comparison a <op> b of two numbers
Holds(operator, a, b) ==
    CASE operator = ">"  -> a > b
      [] operator = "<"  -> a < b
      [] operator = ">=" -> a >= b
      [] operator = "<=" -> a <= b

\* the cell of the row under the filter column and the comparison value
\* both coerce to numbers, and the comparison holds between the numbers
PassesNumerically(row) ==
    /\ ToFloat(Get(row, args.column)).ok
    /\ ToFloat(args.value).ok
    /\ Holds(args.operator,
             ToFloat(Get(row, args.column)).h, ToFloat(args.value).h)

\* the cell is null or absent, or a string that spells no number
NotNumeric(cell) ==
    \/ cell.t = "null"
    \/ cell.t = "str" /\ ~ToFloat(cell).ok

\* what holds of filter_data under >, <, >= and <= whether or not the
\* column is a key of the first row: it does not fail, it keeps no row
\* whose cell is null, absent or a non-numeric string, and it keeps no row
\* at all when the comparison value does not coerce
NumericFilterExcludes ==
    /\ result.exc = "none"
    /\ \A i \in DOMAIN result.val :
          ~NotNumeric(Get(result.val[i], args.column))
    /\ ~ToFloat(args.value).ok => result.val = <<>>

MissingPairs(data) ==
    {p \in (DOMAIN data) \X (DOMAIN data[1]) :
        Get(data[p[1]], data[1][p[2]].k) = Null}

\* C3: validate_spreadsheet_structure returns a result for every table and
\* never fails: is_valid is false, with row_count 0, column_count 0 and no
\* columns, exactly for the empty table; for every non-empty table,
\* whatever the keys of its first row, is_valid is true, columns are the
\* first row's keys in order, missing_values is the number of (row, column)
\* pairs over those columns whose value is null or absent, between 0 and
\* row_count * column_count, and missing_percentage is
\* missing_values / (row_count * column_count) * 100 (to two decimals, as
\* the sentence this comes from has it).
C3_ValidateStructure ==
    Replied("validate_spreadsheet_structure")
    => /\ result.exc = "none"
       /\ result.val.is_valid <=> args.data # <<>>
       /\ args.data = <<>> =>
             /\ result.val.row_count = 0
             /\ result.val.column_count = 0
             /\ result.val.columns = <<>>
       /\ args.data # <<>> =>
             LET rows == Len(args.data)
                 columns == Len(args.data[1])
                 missing == Cardinality(MissingPairs(args.data))
             IN /\ result.val.row_count = rows
                /\ result.val.column_count = columns
                /\ result.val.columns =
                      [i \in 1..columns |-> args.data[1][i].k]
                /\ result.val.missing_values = missing
                /\ 0 <= missing /\ missing <= rows * columns
                /\ result.val.missing_percentage.t = "float"
                /\ LET h == result.val.missing_percentage.n
                   IN /\ 2 * (h * rows * columns - missing * 10000)
                            <= rows * columns
                      /\ 2 * (missing * 10000 - h * rows * columns)
                            <= rows * columns

\* the operations aggregate_data knows
SupportedOperations == {"sum", "avg", "average", "count", "min", "max"}

\* the operators filter_data knows
SupportedOperators == {"=", "==", "!=", ">", "<", ">=", "<=", "contains"}

\* the row belongs to the group of key and its value is collected: it is
\* not null, and it coerces to a number or the operation is count
Collected(row, key) ==
    /\ PyEq(Get(row, args.group_by), key)
    /\ Get(row, args.aggregate_column) # Null
    /\ (ToFloat(Get(row, args.aggregate_column)).ok \/ args.operation = "count")

\* the position of the first row of the table with this group key
FirstRowOf(key) ==
    CHOOSE i \in DOMAIN args.data :
        /\ PyEq(Get(args.data[i], args.group_by), key)
        /\ \A k \in 1..(i - 1) : ~PyEq(Get(args.data[k], args.group_by), key)

\* the numbers collected for the group of key, in hundredths
CollectedNumbers(key) ==
    LET in_group(row) == Collected(row, key)
        rows == SelectSeq(args.data, in_group)
    IN [i \in DOMAIN rows |-> ToFloat(Get(rows[i], args.aggregate_column)).h]

\* every result is a group key under group_by and a value under
\* "<operation>(<aggregate_column>)"; there is exactly one result for each
\* group key with a collected value, and the results stand in the order in
\* which their keys first appear in the table
OneResultPerGroup ==
    LET r == result.val
    IN /\ result.exc = "none"
       /\ \A i \in DOMAIN r :
             /\ Len(r[i]) = 2
             /\ r[i][1].k = args.group_by
             /\ r[i][2].k
                   = args.operation \o "(" \o args.aggregate_column \o ")"
             /\ \E j \in DOMAIN args.data : Collected(args.data[j], r[i][1].v)
       /\ \A j \in DOMAIN args.data :
             Collected(args.data[j], Get(args.data[j], args.group_by))
                => \E i \in DOMAIN r :
                      PyEq(r[i][1].v, Get(args.data[j], args.group_by))
       /\ \A i, j \in DOMAIN r :
             i < j => FirstRowOf(r[i][1].v) < FirstRowOf(r[j][1].v)

\* rows A:1, A:3, B:2 under avg give 2.0 for A and then 2.0 for B
AverageExample ==
    (/\ args.operation = "avg"
     /\ args.data = << <<Item("g", StrCell(<<"A">>)), Item("c", IntCell(1))>>,
                       <<Item("g", StrCell(<<"A">>)), Item("c", IntCell(3))>>,
                       <<Item("g", StrCell(<<"B">>)), Item("c", IntCell(2))>> >>)
    => result.val
          = << <<Item("g", StrCell(<<"A">>)), Item("avg(c)", FloatCell(200))>>,
               <<Item("g", StrCell(<<"B">>)), Item("avg(c)", FloatCell(200))>> >>

TypedNumericRows ==
    {i \in DOMAIN args.data :
        Get(args.data[i], args.column).t \in {"bool", "int", "float"}}

\* the sum, in hundredths, of the cells of the rows of the set rows
RECURSIVE CellSum(_)
CellSum(rows) ==
    IF rows = {} THEN 0
    ELSE LET i == CHOOSE i \in rows : TRUE
             cell == Get(args.data[i], args.column)
         IN (IF cell.t = "float" THEN cell.n ELSE 100 * cell.n)
            + CellSum(rows \ {i})

\* C7: analyze_numeric_column uses exactly the non-null cells of the column
\* whose type is boolean, integer or float (a string cell is left out even
\* when it spells a number): count is the number of such cells and sum
\* their sum.  It returns an error result instead of failing exactly when
\* there are no such cells, as for an empty table or a column no row has.
C7_NumericCells ==
    Replied("analyze_numeric_column")
    => /\ result.exc = "none"
       /\ ("error" \in DOMAIN result.val) <=> TypedNumericRows = {}
       /\ TypedNumericRows # {} =>
             /\ result.val.count = Cardinality(TypedNumericRows)
             /\ result.val.sum = FloatCell(CellSum(TypedNumericRows))

\* a column holding a number, a boolean, a null and a string that spells
\* a number has been analysed: two values counted
C7_Witness ==
    /\ Replied("analyze_numeric_column")
    /\ Len(args.data) = 4
    /\ \E i \in DOMAIN args.data : Get(args.data[i], args.column).t = "str"
    /\ \E i \in DOMAIN args.data : Get(args.data[i], args.column).t = "bool"
    /\ \E i \in DOMAIN args.data : Get(args.data[i], args.column).t = "null"
    /\ result.val.count = 2

\* r is a subsequence of d: the rows of r are rows of d, in their order in
\* d, none taken twice
RECURSIVE IsSubsequence(_, _)
IsSubsequence(r, d) ==
    IF r = <<>> THEN TRUE
    ELSE IF d = <<>> THEN FALSE
    ELSE IF Head(r) = Head(d) THEN IsSubsequence(Tail(r), Tail(d))
    ELSE IsSubsequence(r, Tail(d))

\* C10: for every table, column, operator and value, filter_data returns a
\* subsequence of the input rows (unmodified rows, in their relative
\* order, none added or duplicated), with the input table as it was, and
\* returns the empty table whenever the column is not a key of the first
\* row, even if later rows have that column.
C10_FilterSubsequence ==
    Replied("filter_data")
    => /\ result.exc = "none"
       /\ IsSubsequence(result.val, args.data)
       /\ (args.data = <<>> \/ ~HasKey(args.data[1], args.column))
             => result.val = <<>>

\* the rows of the table in the group of key
GroupRows(key) ==
    LET in_group(row) == PyEq(Get(row, args.group_by), key)
    IN SelectSeq(args.data, in_group)

\* the values of aggregate_column in the group of key that are not null
PresentValues(key) ==
    LET rows == GroupRows(key)
        present(i) == Get(rows[i], args.aggregate_column) # Null
    IN [i \in {i \in DOMAIN rows : present(i)} |->
           Get(rows[i], args.aggregate_column)]

\* the numbers, in hundredths, that the values of the group of key coerce
\* to: a bag, as a function from the positions that coerce
CoercedNumbers(key) ==
    LET present == PresentValues(key)
    IN [i \in {i \in DOMAIN present : ToFloat(present[i]).ok} |->
           ToFloat(present[i]).h]

\* the group keys of the table, each at its first row
GroupKeys == {Get(args.data[i], args.group_by) : i \in DOMAIN args.data}

\* the results whose group key is key
ResultsFor(key) == {i \in DOMAIN result.val : PyEq(result.val[i][1].v, key)}

ValueOccursInCell(row) ==
    OccursIgnoringCase(PyStr(Get(row, args.column)), args.value.s)

HasUpperCase(s) == \E i \in DOMAIN s : s[i] \in Range(UpperLetters)

\* C12 as amended: for contains with a string value, when the column is a
\* key of the first row, filter_data keeps a row exactly when the value is
\* a substring of the lower-cased text of the row's cell; only the cell is
\* lower-cased, so a value with an upper-case letter matches no row; when
\* the column is not a key of the first row no row is kept.
C12_Contains ==
    (Replied("filter_data") /\ args.operator = "contains"
        /\ args.value.t = "str")
    => /\ result.exc = "none"
       /\ result.val =
             IF args.data # <<>> /\ HasKey(args.data[1], args.column)
             THEN SelectSeq(args.data, ValueOccursInCell)
             ELSE <<>>
       /\ HasUpperCase(args.value.s) => result.val = <<>>

\* C12 as stated: a row is kept exactly when the value is a substring of
\* the lower-cased text of its cell, whatever the first row.
C12_Original ==
    (Replied("filter_data") /\ args.operator = "contains"
        /\ args.value.t = "str")
    => /\ result.exc = "none"
       /\ result.val = SelectSeq(args.data, ValueOccursInCell)
       /\ HasUpperCase(args.value.s) => result.val = <<>>

\* contains "b" has kept the row with the cell "Ab" and dropped a row with
\* the cell 2
C12_Witness ==
    /\ Replied("filter_data")
    /\ args.operator = "contains"
    /\ args.column = "a"
    /\ args.value = StrCell(<<"b">>)
    /\ Len(args.data) = 2
    /\ Get(args.data[1], "a") = IntCell(2)
    /\ result.val = << <<Item("a", StrCell(<<"A","b">>))>> >>

\* the number, in hundredths, in the cell of row i of the column
CellNumber(i) ==
    LET cell == Get(args.data[i], args.column)
    IN IF cell.t = "float" THEN cell.n ELSE 100 * cell.n

\* v[k] of the ascending sort v of the numeric values, k counted from 0:
\* the value with at most k values below it and more than k values not
\* above it
SortedAt(k) ==
    LET x == CHOOSE i \in TypedNumericRows :
                /\ Cardinality({j \in TypedNumericRows :
                                   CellNumber(j) < CellNumber(i)}) <= k
                /\ Cardinality({j \in TypedNumericRows :
                                   CellNumber(j) <= CellNumber(i)}) > k
    IN CellNumber(x)

\* h is x / d rounded to two decimals, h and x in hundredths
IsRounded(h, x, d) == 2 * (h * d - x) <= d /\ 2 * (x - h * d) <= d

\* min, max, range and the quartiles of the result, by position in the
\* ascending sort
PositionalStatistics ==
    LET n == Cardinality(TypedNumericRows)
        r == result.val
    IN /\ r.min = FloatCell(SortedAt(0))
       /\ r.max = FloatCell(SortedAt(n - 1))
       /\ r.range = FloatCell(SortedAt(n - 1) - SortedAt(0))
       /\ n > 3 => /\ r.q1 = FloatCell(SortedAt(n \div 4))
                   /\ r.q3 = FloatCell(SortedAt((3 * n) \div 4))
       /\ n <= 3 => r.q1 = Null /\ r.q3 = Null

\* the values 1, 2, 3, 4 give mean 2.5, median 2.5, min 1, max 4, range 3
OneToFourExample ==
    (\E p \in [1..4 -> 1..4] :
        args.data = [i \in 1..4 |-> <<Item(args.column, IntCell(p[i]))>>]
        /\ {p[i] : i \in 1..4} = 1..4)
    => /\ result.val.mean = FloatCell(250)
       /\ result.val.median = FloatCell(250)
       /\ result.val.min = FloatCell(100)
       /\ result.val.max = FloatCell(400)
       /\ result.val.range = FloatCell(300)

\* C13 as amended: with v the ascending sort of the n >= 1 numeric values
\* of the column, analyze_numeric_column returns min = v[0], max = v[n-1],
\* range = max - min, mean = sum / n rounded to two decimals, median =
\* v[n//2] when n is odd and (v[n//2 - 1] + v[n//2]) / 2 when n is even,
\* rounded to two decimals, and q1 = v[n//4], q3 = v[3n//4], rounded to two
\* decimals, when n > 3 but both null when n <= 3; the values 1, 2, 3, 4
\* give mean 2.5, median 2.5, min 1, max 4, range 3.  (The cells hold
\* numbers of at most two decimals, which the rounding of a quartile leaves
\* as they are.)
C13_ColumnStatistics ==
    (Replied("analyze_numeric_column") /\ TypedNumericRows # {})
    => LET n == Cardinality(TypedNumericRows)
           r == result.val
       IN /\ result.exc = "none"
          /\ PositionalStatistics
          /\ OneToFourExample
          /\ r.mean.t = "float"
          /\ IsRounded(r.mean.n, CellSum(TypedNumericRows), n)
          /\ r.median.t = "float"
          /\ n % 2 = 1 => r.median.n = SortedAt(n \div 2)
          /\ n % 2 = 0 =>
                IsRounded(r.median.n,
                          SortedAt((n \div 2) - 1) + SortedAt(n \div 2), 2)

\* C13 as stated: the same, with the mean sum / n itself and the median of
\* an even number of values the average of the two middle values itself.
C13_Original ==
    (Replied("analyze_numeric_column") /\ TypedNumericRows # {})
    => LET n == Cardinality(TypedNumericRows)
           r == result.val
       IN /\ result.exc = "none"
          /\ PositionalStatistics
          /\ OneToFourExample
          /\ r.mean.t = "float"
          /\ r.mean.n * n = CellSum(TypedNumericRows)
          /\ r.median.t = "float"
          /\ n % 2 = 1 => r.median.n = SortedAt(n \div 2)
          /\ n % 2 = 0 =>
                2 * r.median.n = SortedAt((n \div 2) - 1) + SortedAt(n \div 2)

\* the column 4, 2, 1, 3 has been analysed: mean and median 2.5, the
\* quartiles at positions 1 and 3 of the sort
C13_Witness ==
    /\ Replied("analyze_numeric_column")
    /\ args.data = << <<Item("a", IntCell(4))>>, <<Item("a", IntCell(2))>>,
                      <<Item("a", IntCell(1))>>, <<Item("a", IntCell(3))>> >>
    /\ args.column = "a"
    /\ result.val.mean = FloatCell(250)
    /\ result.val.median = FloatCell(250)
    /\ result.val.q1 = FloatCell(200)
    /\ result.val.q3 = FloatCell(400)

\* the tokens of the text given to extract_key_topics, lower-cased
TopicTokens == Split(Lower(args.text))

TokenOccurrences(tokens, w) ==
    Cardinality({i \in DOMAIN tokens : tokens[i] = w})

\* the position of the first occurrence of w among the tokens
FirstOccurrence(tokens, w) ==
    CHOOSE i \in DOMAIN tokens :
        /\ tokens[i] = w
        /\ \A k \in 1..(i - 1) : tokens[k] # w

\* w is alphanumeric, longer than 3 characters, not a stop word, and
\* occurs at least twice
QualifiesAsTopic(tokens, w) ==
    /\ w # <<>>
    /\ \A i \in DOMAIN w : w[i] \in Range(LowerLetters) \cup Range(Digits)
    /\ Len(w) > 3
    /\ w \notin STOP_WORDS
    /\ TokenOccurrences(tokens, w) >= 2

\* a occurs more often than b, or as often and first before it
Outranks(tokens, a, b) ==
    \/ TokenOccurrences(tokens, a) > TokenOccurrences(tokens, b)
    \/ /\ TokenOccurrences(tokens, a) = TokenOccurrences(tokens, b)
       /\ FirstOccurrence(tokens, a) < FirstOccurrence(tokens, b)

C15_FilterTwice ==
    Replied("filter_data again")
    => /\ result.exc = "none"
       /\ result.val =
             IF args.data = <<>> \/ HasKey(args.data[1], args.column)
             THEN args.data ELSE <<>>

\* C15 as stated: filter_data applied to its own result returns that
\* result unchanged, also for rows that do not all have the same columns.
C15_Original ==
    Replied("filter_data again") => result = Returned(args.data)

\* a result of two rows with different columns, the first with the column
\* filtered on, has been filtered again and has come back as it was
C15_Witness ==
    /\ Replied("filter_data again")
    /\ Len(args.data) = 2
    /\ HasKey(args.data[1], args.column)
    /\ Keys(args.data[1]) # Keys(args.data[2])
    /\ result.val = args.data

\* the number of lines of the body in which a phrase of the list occurs,
\* the case of the line ignored
MatchingLines(phrases) ==
    LET lines == SplitOn(args.body, "\n")
    IN Cardinality({i \in DOMAIN lines :
          \E k \in DOMAIN phrases : OccursIgnoringCase(lines[i], phrases[k])})

\* C16 as amended: in the result of email_analyzer.analyze_email_content,
\* action_item_count is the length of action_items and so never exceeds 3;
\* in the result of main.analyze_email_content, action_item_count is the
\* number of all the lines of the body that match an action phrase, which
\* exceeds 3 for a body with more than three such lines, and action_items
\* holds the first three of them at most.
C16_ActionItemCount ==
    /\ Replied("analyze_email_content") =>
          /\ result.val.action_item_count = Len(result.val.action_items)
          /\ result.val.action_item_count <= 3
    /\ Replied("main.analyze_email_content") =>
          LET matching == MatchingLines(main_action_keywords)
          IN /\ result.val.action_item_count = matching
             /\ Len(result.val.action_items)
                   = (IF matching < 3 THEN matching ELSE 3)

\* C16 as stated: in the result of either copy, action_item_count is the
\* length of action_items and never exceeds 3.
C16_Original ==
    (Replied("analyze_email_content") \/ Replied("main.analyze_email_content"))
    => /\ result.val.action_item_count = Len(result.val.action_items)
       /\ result.val.action_item_count <= 3

\* a body of four lines that each match an action phrase has been
\* analysed: three action items have come back
C16_Witness ==
    /\ \/ Replied("analyze_email_content")
       \/ Replied("main.analyze_email_content")
    /\ MatchingLines(main_action_keywords) = 4
    /\ Len(result.val.action_items) = 3

====
